---- MODULE Spec2Model ----
(***************************************************************************)
(* Model of the goroutine worker pool of                                   *)
(* go-database-comparison/pkg/concurrency/goroutine_pool.go.               *)
(*                                                                         *)
(* The pool is one WorkerPool value.  Caller goroutines invoke Start,      *)
(* Submit, Stop and GetResults on it; worker goroutines run worker(); the  *)
(* owner of the context handed to NewWorkerPool may cancel it at any time. *)
(* Start, Submit and Stats hold wp.mu from entry to return and never block *)
(* inside, so each is one step, taken when wp.mu is free; a call that      *)
(* arrives while Stop holds wp.mu waits (pc "start", "submit", "stats",    *)
(* "stop").                                                                *)
(* Stop holds wp.mu across wp.wg.Wait() and is modelled statement by       *)
(* statement.  A Go select with several ready cases picks any of them, so  *)
(* each ready case is a separate disjunct.                                 *)
(* A send on a closed channel and a close of a closed channel panic; a     *)
(* panic ends the process (panicked), after which nothing moves.           *)
(***************************************************************************)
EXTENDS Integers, Sequences, FiniteSets, TLC

\* ---- bounds of the model -------------------------------------------------
MaxWorkers  == 1         \* NewWorkerPool is called with workers in 0..MaxWorkers
MaxJobs     == 3         \* Job values submitted over a lifecycle run
BurstJobs   == 14        \* Job values submitted over a burst run
TimedJobs   == 2         \* Job values submitted over a timed run
MaxClock    == 2         \* time.Now() reads a value in 0..MaxClock
MaxThreshold == 2        \* NewDatabaseCircuitBreaker: threshold in 1..MaxThreshold
MaxBreakerTimeout == 2   \* NewDatabaseCircuitBreaker: timeout in 1..MaxBreakerTimeout

\* ---- inputs --------------------------------------------------------------
Counts == {0, 2}        \* GetResults is called with count in Counts
Timeouts == {0, 1}      \* Job.Timeout: none, or a positive duration

\* ---- program constants ---------------------------------------------------
JobQueueFactor == 10     \* make(chan Job, workers*10)
ResultsFactor  == 2      \* make(chan Result, workers*2)
BenchTimeout   == 30     \* Timeout: 30 * time.Second of SubmitBenchmarkJob
ExampleWorkers == 10     \* NewDatabaseWorkerPool(10)
ExampleJobs    == 100    \* for i := 0; i < 100; i++, both loops
ChanFactor     == 2      \* make(chan DatabaseJob, workers*2), and the results

\* ---- goroutines ----------------------------------------------------------
Callers   == {"c1", "c2"}
Collector == "c1"        \* the one goroutine that collects results
NoOne     == "none"      \* wp.mu is not write-locked

\* ---- error values --------------------------------------------------------
ErrNil        == "nil"
ErrNotStarted == "worker pool not started"
ErrQueueFull  == "job queue full"
ErrCanceled   == "context canceled"
ErrTimeout    == "timeout waiting for results"
ErrTask       == "task error"
ErrOpen       == "circuit breaker is open"
ErrDeadline   == "context deadline exceeded"

\* fmt.Errorf("timeout waiting for results, got %d/%d", len(results), count)
TimeoutError(k, n) == ErrTimeout \o ", got " \o ToString(k) \o "/" \o ToString(n)
TimeoutErrors      == UNION {{TimeoutError(k, n) : k \in 0..n} : n \in Counts}

\* ---- data shapes ---------------------------------------------------------
\* what a TaskFunc does with the context it is given:
\*   "work"    does its work and returns, whatever the context
\*   "waitCtx" blocks until its context is done and returns the context's error
\*   "hang"    ignores its context and never returns
TaskFuncs        == {"work", "waitCtx", "hang"}

Job(id, f, t)    == [ID |-> id, TaskFunc |-> f, Timeout |-> t]
Result(id, err)  == [JobID |-> id, Error |-> err]
ZeroResult       == Result(0, ErrNil)  \* the zero value Result{}
NoJob            == Job(0, "work", 0)

\* what a "work" TaskFunc of job id returns as err: jobs with an even ID fail
TaskErr(id) == IF id % 2 = 0 THEN ErrTask ELSE ErrNil

VARIABLES
    workers,      \* wp.workers
    jobQueue,     \* buffered content of wp.jobQueue
    jobClosed,    \* close(wp.jobQueue) has happened
    results,      \* buffered content of wp.results
    resClosed,    \* close(wp.results) has happened
    wg,           \* counter of wp.wg
    ctxDone,      \* wp.ctx is cancelled (by wp.cancel or by the parent)
    started,      \* wp.started
    mu,           \* goroutine holding wp.mu for writing, or NoOne
    wstate,       \* per worker: "none", "idle", "exec", "deliver", "exited"
    wjob,         \* per worker: the job it dequeued (local job)
    wresult,      \* per worker: the result it holds (local result)
    deadline,     \* per worker: the timer of its jobCtx has fired
    pc,           \* per caller: where it is
    count,        \* argument count of the latest GetResults call
    got,          \* local slice results of the latest GetResults call
    last,         \* the latest call that returned an error value: which, what
    nextId,       \* ID of the next Job value submitted
    accepted,     \* IDs of jobs for which Submit returned nil
    execCount,    \* per job ID: number of times TaskFunc was invoked
    sentCount,    \* per job ID: number of Results sent on wp.results
    spawned,      \* number of "go wp.worker(i)" executed
    stopCalled,   \* Stop has triggered wp.cancel()
    stopped,      \* a Stop that shut the pool down has returned
    everStarted,  \* a Start call has run its body
    panicked,     \* the process died of a panic
    workload,     \* what this run is: "lifecycle", "burst", "timed" are runs of
                  \* a WorkerPool, "bench" is a run of a DatabaseBenchmarkPool,
                  \* "example" is a run of ExampleConcurrentProcessing,
                  \* "breaker" is a run of a DatabaseCircuitBreaker
    now,          \* the value time.Now() returns
    benchQueue,   \* buffered content of dbp.jobQueue
    cb,           \* the DatabaseCircuitBreaker: failures, lastFailure, threshold,
                  \* timeout
    call,         \* per caller of cb.Execute: where it is (pc), its locals
                  \* failures and lastFailure, what its latest call returned
                  \* (ret)
    dwp           \* the DatabaseWorkerPool of the example and its goroutines:
                  \* jobs, results: number of values buffered in p.jobs, p.results;
                  \* processing, sending: number of workers inside processJob,
                  \* at p.results <- result; sent, received: the caller's two
                  \* loop counters

poolVars   == <<workers, jobQueue, jobClosed, results, resClosed, wg, ctxDone, started, mu>>
workerVars == <<wstate, wjob, wresult, deadline>>
callerVars == <<pc, count, got, last, nextId>>
histVars   == <<accepted, execCount, sentCount, spawned, stopCalled, stopped, everStarted>>
mainVars   == <<poolVars, workerVars, callerVars, histVars, panicked>>
sideVars   == <<now, benchQueue, dwp, cb, call>>
vars       == <<mainVars, workload, sideVars>>

\* the callers of a run of the WorkerPool create at most JobBudget Job values
JobBudget ==
    IF workload = "lifecycle" THEN MaxJobs
    ELSE IF workload = "timed" THEN TimedJobs
    ELSE IF workload = "burst" THEN BurstJobs
    ELSE 0
JobIds     == 1..JobBudget
WorkerIds  == 1..workers
\* a timed run may have one worker more than the other runs, so that two
\* jobs with a timeout execute side by side
Slots      == 1..(MaxWorkers + 1)
MaxWorkersOf(load) ==
    IF load = "timed" THEN MaxWorkers + 1
    ELSE IF load \in {"lifecycle", "burst", "bench"} THEN MaxWorkers
    ELSE 1      \* the run does not use the WorkerPool

JobQueueCap == workers * JobQueueFactor
ResultsCap  == workers * ResultsFactor

\* IDs of the jobs for which Submit returned an error
Rejected == (1..(nextId - 1)) \ accepted

\* runtime.NumCPU() is whatever the platform reports; workers <= 0 takes it
NormWorkers(n, cpu) == IF n <= 0 THEN cpu ELSE n

NoCall == [op |-> "none", err |-> ErrNil]

\* the value of an object that the run does not construct
Absent == "absent"

\* a goroutine that is not inside cb.Execute and has not called it yet
NoExecute == [pc |-> "idle", failures |-> 0, lastFailure |-> 0, ret |-> ErrNil]

\* caller c returns err from op (Submit or GetResults)
Return(c, op, err) ==
    /\ pc'   = [pc EXCEPT ![c] = "idle"]
    /\ last' = [op |-> op, err |-> err]

\* caller c returns from Start or Stop, which return nothing
ReturnVoid(c) ==
    /\ pc' = [pc EXCEPT ![c] = "idle"]
    /\ UNCHANGED last

\* caller c arrives at a method that starts with wp.mu.Lock()/RLock() while
\* Stop holds wp.mu
WaitForMu(c, at) ==
    /\ pc[c] = "idle"
    /\ mu # NoOne
    /\ pc' = [pc EXCEPT ![c] = at]
    /\ UNCHANGED <<poolVars, workerVars, count, got, last, nextId, histVars,
                   panicked>>

\* ---- NewWorkerPool -------------------------------------------------------
Init ==
    /\ workload \in {"lifecycle", "burst", "timed", "bench", "example", "breaker"}
    /\ \E n \in 0..MaxWorkersOf(workload), cpu \in 1..MaxWorkersOf(workload) :
          workers = NormWorkers(n, cpu)
    /\ jobQueue = <<>> /\ jobClosed = FALSE
    /\ results = <<>> /\ resClosed = FALSE
    /\ wg = 0 /\ ctxDone = FALSE /\ started = FALSE /\ mu = NoOne
    /\ wstate  = [w \in Slots |-> "none"]
    /\ wjob    = [w \in Slots |-> NoJob]
    /\ wresult = [w \in Slots |-> ZeroResult]
    /\ deadline = [w \in Slots |-> FALSE]
    /\ pc  = [c \in Callers |-> "idle"]
    /\ count = 0
    /\ got = <<>>
    /\ last = NoCall
    /\ nextId = 1
    /\ accepted = {}
    /\ execCount = [j \in JobIds |-> 0]
    /\ sentCount = [j \in JobIds |-> 0]
    /\ spawned = 0 /\ stopCalled = FALSE /\ stopped = FALSE /\ everStarted = FALSE
    /\ panicked = FALSE
    /\ now = 0
    /\ benchQueue = <<>>
    /\ IF workload = "example"
         THEN dwp = [jobs |-> 0, results |-> 0, processing |-> 0, sending |-> 0,
                     sent |-> 0, received |-> 0]
         ELSE dwp = Absent
    /\ IF workload = "breaker"
         THEN /\ \E th \in 1..MaxThreshold, to \in 1..MaxBreakerTimeout :
                    cb = [failures |-> 0, lastFailure |-> 0,
                          threshold |-> th, timeout |-> to]
              /\ call = [c \in Callers |-> NoExecute]
         ELSE cb = Absent /\ call = Absent

\* ---- Start ---------------------------------------------------------------
StartWait(c) == WaitForMu(c, "start")

\* Start, run with wp.mu write-locked from entry to return
\* mutant of Start: only the first worker goroutine is spawned
StartOneWorker(c) ==
    /\ pc[c] \in {"idle", "start"}
    /\ mu = NoOne
    /\ IF started
         THEN UNCHANGED <<wstate, wg, spawned, started>>
         ELSE /\ wstate' = [w \in Slots |-> IF w = 1 THEN "idle" ELSE wstate[w]]
              /\ wg' = wg + 1
              /\ spawned' = spawned + 1
              /\ started' = TRUE
    /\ everStarted' = TRUE
    /\ ReturnVoid(c)
    /\ UNCHANGED <<workers, jobQueue, jobClosed, results, resClosed, ctxDone, mu,
                   wjob, wresult, deadline, count, got, nextId, accepted,
                   execCount, sentCount, stopCalled, stopped, panicked>>

Start(c) ==
    /\ pc[c] \in {"idle", "start"}
    /\ mu = NoOne
    /\ IF started
         THEN UNCHANGED <<wstate, wg, spawned, started>>
         ELSE /\ wstate' = [w \in Slots |->
                              IF w \in WorkerIds THEN "idle" ELSE wstate[w]]
              /\ wg' = wg + workers
              /\ spawned' = spawned + workers
              /\ started' = TRUE
    /\ everStarted' = TRUE
    /\ ReturnVoid(c)
    /\ UNCHANGED <<workers, jobQueue, jobClosed, results, resClosed, ctxDone, mu,
                   wjob, wresult, deadline, count, got, nextId, accepted,
                   execCount, sentCount, stopCalled, stopped, panicked>>

\* ---- Submit --------------------------------------------------------------
\* the Job values a caller may pass to Submit now: in a timed run a job with
\* a timeout whose task function waits for its context or ignores it, else
\* a job without timeout whose task function does its work
NewJobs ==
    IF workload = "timed"
      THEN {Job(nextId, f, t) : f \in TaskFuncs \ {"work"}, t \in Timeouts \ {0}}
      ELSE {Job(nextId, "work", 0)}

SubmitWait(c) == WaitForMu(c, "submit")

\* mutant of SubmitNotStarted: the started check is missing, the job is sent
SubmitNotStartedSends(c) ==
    /\ ~started
    /\ \E job \in NewJobs : jobQueue' = Append(jobQueue, job)
    /\ accepted' = accepted \cup {nextId}
    /\ Return(c, "Submit", ErrNil)
    /\ nextId' = nextId + 1
    /\ UNCHANGED panicked

\* if !wp.started { return error }
SubmitNotStarted(c) ==
    /\ ~started
    /\ Return(c, "Submit", ErrNotStarted)
    /\ nextId' = nextId + 1
    /\ UNCHANGED <<jobQueue, accepted, panicked>>

\* mutant of SubmitSend: the channel takes one job more than its capacity
SubmitSendOverCap(c) ==
    /\ started
    /\ ~jobClosed
    /\ Len(jobQueue) <= JobQueueCap
    /\ \E job \in NewJobs : jobQueue' = Append(jobQueue, job)
    /\ accepted' = accepted \cup {nextId}
    /\ Return(c, "Submit", ErrNil)
    /\ nextId' = nextId + 1
    /\ UNCHANGED panicked

\* case wp.jobQueue <- job: return nil
SubmitSend(c) ==
    /\ started
    /\ ~jobClosed
    /\ Len(jobQueue) < JobQueueCap
    /\ \E job \in NewJobs : jobQueue' = Append(jobQueue, job)
    /\ accepted' = accepted \cup {nextId}
    /\ Return(c, "Submit", ErrNil)
    /\ nextId' = nextId + 1
    /\ UNCHANGED panicked

\* case wp.jobQueue <- job, the channel being closed: the send panics
SubmitSendClosed(c) ==
    /\ started
    /\ jobClosed
    /\ panicked' = TRUE
    /\ UNCHANGED <<jobQueue, accepted, pc, last, nextId>>

\* mutant of SubmitCtxDone: the job is sent although the error is returned
SubmitCtxDoneSends(c) ==
    /\ started
    /\ ctxDone
    /\ ~jobClosed
    /\ \E job \in NewJobs : jobQueue' = Append(jobQueue, job)
    /\ Return(c, "Submit", ErrCanceled)
    /\ nextId' = nextId + 1
    /\ UNCHANGED <<accepted, panicked>>

\* case <-wp.ctx.Done(): return wp.ctx.Err()
SubmitCtxDone(c) ==
    /\ started
    /\ ctxDone
    /\ Return(c, "Submit", ErrCanceled)
    /\ nextId' = nextId + 1
    /\ UNCHANGED <<jobQueue, accepted, panicked>>

\* default: return "job queue full"
SubmitQueueFull(c) ==
    /\ started
    /\ ~jobClosed
    /\ Len(jobQueue) >= JobQueueCap
    /\ ~ctxDone
    /\ Return(c, "Submit", ErrQueueFull)
    /\ nextId' = nextId + 1
    /\ UNCHANGED <<jobQueue, accepted, panicked>>

\* Submit, run with wp.mu read-locked from entry to return
Submit(c) ==
    /\ pc[c] \in {"idle", "submit"}
    /\ mu = NoOne
    /\ \/ SubmitNotStarted(c)
       \/ SubmitSend(c)
       \/ SubmitSendClosed(c)
       \/ SubmitCtxDone(c)
       \/ SubmitQueueFull(c)
    /\ UNCHANGED <<workers, jobClosed, results, resClosed, wg, ctxDone, started, mu,
                   workerVars, count, got, execCount, sentCount, spawned,
                   stopCalled, stopped, everStarted>>

\* ---- worker --------------------------------------------------------------
\* mutant of executeJob: the error of the task function is not put in the
\* Result
executeJobNoError(job, err) == Result(job.ID, ErrNil)

\* executeJob: the Result built from what TaskFunc returned
executeJob(job, err) == Result(job.ID, err)

\* defer wp.wg.Done() on return
WorkerExit(w) ==
    /\ wstate' = [wstate EXCEPT ![w] = "exited"]
    /\ wg' = wg - 1

\* mutant of WorkerRecvJob: the job is read but stays in the queue
WorkerRecvJobPeek(w) ==
    /\ wstate[w] = "idle"
    /\ Len(jobQueue) > 0
    /\ wjob' = [wjob EXCEPT ![w] = Head(jobQueue)]
    /\ wstate' = [wstate EXCEPT ![w] = "exec"]
    /\ execCount' = [execCount EXCEPT ![Head(jobQueue).ID] = IF @ < 2 THEN @ + 1 ELSE @]
    /\ UNCHANGED <<poolVars, wresult, deadline, callerVars, accepted, sentCount,
                   spawned, stopCalled, stopped, everStarted, panicked>>

\* mutant of WorkerRecvJob: the worker takes the newest job of the queue
WorkerRecvJobLast(w) ==
    /\ wstate[w] = "idle"
    /\ Len(jobQueue) > 0
    /\ wjob' = [wjob EXCEPT ![w] = jobQueue[Len(jobQueue)]]
    /\ jobQueue' = SubSeq(jobQueue, 1, Len(jobQueue) - 1)
    /\ wstate' = [wstate EXCEPT ![w] = "exec"]
    /\ execCount' = [execCount EXCEPT ![jobQueue[Len(jobQueue)].ID] = @ + 1]
    /\ UNCHANGED <<workers, jobClosed, results, resClosed, wg, ctxDone, started, mu,
                   wresult, deadline, callerVars, accepted, sentCount, spawned,
                   stopCalled, stopped, everStarted, panicked>>

\* case job, ok := <-wp.jobQueue, ok true: executeJob invokes job.TaskFunc
WorkerRecvJob(w) ==
    /\ wstate[w] = "idle"
    /\ Len(jobQueue) > 0
    /\ wjob' = [wjob EXCEPT ![w] = Head(jobQueue)]
    /\ jobQueue' = Tail(jobQueue)
    /\ wstate' = [wstate EXCEPT ![w] = "exec"]
    /\ execCount' = [execCount EXCEPT ![Head(jobQueue).ID] = @ + 1]
    /\ UNCHANGED <<workers, jobClosed, results, resClosed, wg, ctxDone, started, mu,
                   wresult, deadline, callerVars, accepted, sentCount, spawned,
                   stopCalled, stopped, everStarted, panicked>>

\* case job, ok := <-wp.jobQueue, ok false: return
WorkerQueueClosed(w) ==
    /\ wstate[w] = "idle"
    /\ Len(jobQueue) = 0
    /\ jobClosed
    /\ WorkerExit(w)
    /\ UNCHANGED <<workers, jobQueue, jobClosed, results, resClosed, ctxDone, started,
                   mu, wjob, wresult, deadline, callerVars, histVars, panicked>>

\* outer case <-wp.ctx.Done(): return
\* mutant of WorkerCtxDone: the cancellation also ends a worker inside a task
WorkerCtxDoneAbandons(w) ==
    /\ wstate[w] \in {"idle", "exec"}
    /\ ctxDone
    /\ WorkerExit(w)
    /\ UNCHANGED <<workers, jobQueue, jobClosed, results, resClosed, ctxDone, started,
                   mu, wjob, wresult, deadline, callerVars, histVars, panicked>>

WorkerCtxDone(w) ==
    /\ wstate[w] = "idle"
    /\ ctxDone
    /\ WorkerExit(w)
    /\ UNCHANGED <<workers, jobQueue, jobClosed, results, resClosed, ctxDone, started,
                   mu, wjob, wresult, deadline, callerVars, histVars, panicked>>

\* jobCtx.Err() of the job worker w executes: jobCtx is wp.ctx, or a child
\* of it with the job's timeout; a context keeps the error it was first
\* cancelled with, and the timer does nothing to a context already cancelled
JobCtxErr(w) ==
    IF deadline[w] THEN ErrDeadline
    ELSE IF ctxDone THEN ErrCanceled
    ELSE ErrNil

\* the errors job.TaskFunc(jobCtx) of worker w can return with now
TaskOutcomes(w) ==
    CASE wjob[w].TaskFunc = "work"    -> {TaskErr(wjob[w].ID)}
      [] wjob[w].TaskFunc = "waitCtx" -> {JobCtxErr(w)} \ {ErrNil}
      [] wjob[w].TaskFunc = "hang"    -> {}

\* mutant of JobTimeout: the timeout cancels the pool's context, not a child
JobTimeoutCancelsPool(w) ==
    /\ wstate[w] = "exec"
    /\ wjob[w].Timeout > 0
    /\ ~deadline[w]
    /\ ~ctxDone
    /\ deadline' = [deadline EXCEPT ![w] = TRUE]
    /\ ctxDone' = TRUE
    /\ UNCHANGED <<workers, jobQueue, jobClosed, results, resClosed, wg, started, mu,
                   wstate, wjob, wresult, callerVars, histVars, panicked>>

\* the timer of context.WithTimeout(wp.ctx, job.Timeout) fires
JobTimeout(w) ==
    /\ wstate[w] = "exec"
    /\ wjob[w].Timeout > 0
    /\ ~deadline[w]
    /\ ~ctxDone
    /\ deadline' = [deadline EXCEPT ![w] = TRUE]
    /\ UNCHANGED <<poolVars, wstate, wjob, wresult, callerVars, histVars, panicked>>

\* job.TaskFunc returns, the deferred cancel releases jobCtx and executeJob
\* returns its Result
TaskReturn(w) ==
    /\ wstate[w] = "exec"
    /\ \E err \in TaskOutcomes(w) :
          wresult' = [wresult EXCEPT ![w] = executeJob(wjob[w], err)]
    /\ deadline' = [deadline EXCEPT ![w] = FALSE]
    /\ wstate' = [wstate EXCEPT ![w] = "deliver"]
    /\ UNCHANGED <<poolVars, wjob, callerVars, histVars, panicked>>

\* mutant of WorkerSendResult: the worker goes on without sending the result
WorkerSendResultLost(w) ==
    /\ wstate[w] = "deliver"
    /\ ~resClosed
    /\ Len(results) < ResultsCap
    /\ wstate' = [wstate EXCEPT ![w] = "idle"]
    /\ wjob' = [wjob EXCEPT ![w] = NoJob]
    /\ wresult' = [wresult EXCEPT ![w] = ZeroResult]
    /\ UNCHANGED <<poolVars, deadline, callerVars, histVars, panicked>>

\* mutant of WorkerSendResult: the result channel takes one Result more than
\* its capacity
WorkerSendResultOverCap(w) ==
    /\ wstate[w] = "deliver"
    /\ ~resClosed
    /\ Len(results) <= ResultsCap
    /\ results' = Append(results, wresult[w])
    /\ sentCount' = [sentCount EXCEPT ![wresult[w].JobID] = @ + 1]
    /\ wstate' = [wstate EXCEPT ![w] = "idle"]
    /\ wjob' = [wjob EXCEPT ![w] = NoJob]
    /\ wresult' = [wresult EXCEPT ![w] = ZeroResult]
    /\ UNCHANGED <<workers, jobQueue, jobClosed, resClosed, wg, ctxDone, started, mu,
                   deadline, callerVars, accepted, execCount, spawned, stopCalled,
                   stopped, everStarted, panicked>>

\* case wp.results <- result
WorkerSendResult(w) ==
    /\ wstate[w] = "deliver"
    /\ ~resClosed
    /\ Len(results) < ResultsCap
    /\ results' = Append(results, wresult[w])
    /\ sentCount' = [sentCount EXCEPT ![wresult[w].JobID] = @ + 1]
    /\ wstate' = [wstate EXCEPT ![w] = "idle"]
    /\ wjob' = [wjob EXCEPT ![w] = NoJob]
    /\ wresult' = [wresult EXCEPT ![w] = ZeroResult]
    /\ UNCHANGED <<workers, jobQueue, jobClosed, resClosed, wg, ctxDone, started, mu,
                   deadline, callerVars, accepted, execCount, spawned, stopCalled,
                   stopped, everStarted, panicked>>

\* case wp.results <- result, the channel being closed: the send panics
WorkerSendClosed(w) ==
    /\ wstate[w] = "deliver"
    /\ resClosed
    /\ panicked' = TRUE
    /\ UNCHANGED <<poolVars, workerVars, callerVars, histVars>>

\* mutant of WorkerDropResult: the worker gives up without the context done
WorkerDropResultAnyTime(w) ==
    /\ wstate[w] = "deliver"
    /\ WorkerExit(w)
    /\ wjob' = [wjob EXCEPT ![w] = NoJob]
    /\ wresult' = [wresult EXCEPT ![w] = ZeroResult]
    /\ UNCHANGED <<workers, jobQueue, jobClosed, results, resClosed, ctxDone, started,
                   mu, deadline, callerVars, histVars, panicked>>

\* mutant of WorkerDropResult: the send is not raced against the context
WorkerDropResultMissing(w) ==
    /\ wstate[w] = "deliver"
    /\ FALSE
    /\ UNCHANGED vars

\* inner case <-wp.ctx.Done(): return, the result is dropped
WorkerDropResult(w) ==
    /\ wstate[w] = "deliver"
    /\ ctxDone
    /\ WorkerExit(w)
    /\ wjob' = [wjob EXCEPT ![w] = NoJob]
    /\ wresult' = [wresult EXCEPT ![w] = ZeroResult]
    /\ UNCHANGED <<workers, jobQueue, jobClosed, results, resClosed, ctxDone, started,
                   mu, deadline, callerVars, histVars, panicked>>

\* one step of worker goroutine w that is not the task function's own
worker(w) ==
    \/ WorkerRecvJob(w)
    \/ WorkerQueueClosed(w)
    \/ WorkerCtxDone(w)
    \/ WorkerSendResult(w)
    \/ WorkerSendClosed(w)
    \/ WorkerDropResult(w)

\* ---- the context passed to NewWorkerPool is cancelled by its owner -------
ParentCancel ==
    /\ ~ctxDone
    /\ ctxDone' = TRUE
    /\ UNCHANGED <<workers, jobQueue, jobClosed, results, resClosed, wg, started, mu,
                   workerVars, callerVars, histVars, panicked>>

\* ---- GetResults ----------------------------------------------------------
\* results := make([]Result, 0, count); timeoutCtx derives from wp.ctx
GetResultsCall(c) ==
    /\ c = Collector
    /\ pc[c] = "idle"
    /\ \E n \in Counts : count' = n
    /\ got' = <<>>
    /\ pc' = [pc EXCEPT ![c] = "getResults"]
    /\ UNCHANGED <<poolVars, workerVars, last, nextId, histVars, panicked>>

\* case result := <-wp.results: results = append(results, result)
GetResultsRecv(c) ==
    /\ pc[c] = "getResults"
    /\ Len(got) < count
    /\ Len(results) > 0
    /\ got' = Append(got, Head(results))
    /\ results' = Tail(results)
    /\ UNCHANGED <<workers, jobQueue, jobClosed, resClosed, wg, ctxDone, started, mu,
                   workerVars, pc, count, last, nextId, histVars, panicked>>

\* case result := <-wp.results on the closed, drained channel: the zero value
GetResultsRecvClosed(c) ==
    /\ pc[c] = "getResults"
    /\ Len(got) < count
    /\ Len(results) = 0
    /\ resClosed
    /\ got' = Append(got, ZeroResult)
    /\ UNCHANGED <<poolVars, workerVars, pc, count, last, nextId, histVars,
                   panicked>>

\* mutant of GetResultsTimeout: on timeout the slice gathered so far is not
\* returned
GetResultsTimeoutNil(c) ==
    /\ pc[c] = "getResults"
    /\ Len(got) < count
    /\ \E fired \in BOOLEAN : fired \/ ctxDone
    /\ got' = <<>>
    /\ Return(c, "GetResults", TimeoutError(Len(got), count))
    /\ UNCHANGED <<poolVars, workerVars, count, nextId, histVars, panicked>>

\* mutant of GetResultsTimeout: the deferred cancel cancels wp.ctx itself
GetResultsTimeoutCancelsPool(c) ==
    /\ pc[c] = "getResults"
    /\ Len(got) < count
    /\ ctxDone' = TRUE
    /\ Return(c, "GetResults", TimeoutError(Len(got), count))
    /\ UNCHANGED <<workers, jobQueue, jobClosed, results, resClosed, wg, started, mu,
                   workerVars, count, got, nextId, histVars, panicked>>

\* case <-timeoutCtx.Done(): the timer fired or wp.ctx is cancelled
GetResultsTimeout(c) ==
    /\ pc[c] = "getResults"
    /\ Len(got) < count
    /\ \E fired \in BOOLEAN : fired \/ ctxDone
    /\ Return(c, "GetResults", TimeoutError(Len(got), count))
    /\ UNCHANGED <<poolVars, workerVars, count, got, nextId, histVars, panicked>>

\* the loop is over: return results, nil
GetResultsReturn(c) ==
    /\ pc[c] = "getResults"
    /\ Len(got) >= count
    /\ Return(c, "GetResults", ErrNil)
    /\ UNCHANGED <<poolVars, workerVars, count, got, nextId, histVars, panicked>>

\* GetResult, case result := <-wp.results: return result, nil
GetResultRecv(c) ==
    /\ Len(results) > 0
    /\ got' = <<Head(results)>>
    /\ results' = Tail(results)
    /\ Return(c, "GetResult", ErrNil)

\* GetResult, the receive on the closed, drained channel: the zero value, nil
GetResultRecvClosed(c) ==
    /\ Len(results) = 0
    /\ resClosed
    /\ got' = <<ZeroResult>>
    /\ Return(c, "GetResult", ErrNil)
    /\ UNCHANGED results

\* GetResult, case <-wp.ctx.Done(): return Result{}, wp.ctx.Err()
GetResultCtxDone(c) ==
    /\ ctxDone
    /\ got' = <<>>
    /\ Return(c, "GetResult", ErrCanceled)
    /\ UNCHANGED results

\* GetResult blocks in its select until one of the cases is ready
GetResult(c) ==
    /\ c = Collector
    /\ pc[c] = "idle"
    /\ GetResultRecv(c) \/ GetResultRecvClosed(c) \/ GetResultCtxDone(c)
    /\ UNCHANGED <<workers, jobQueue, jobClosed, resClosed, wg, ctxDone, started, mu,
                   workerVars, count, nextId, histVars, panicked>>

\* caller c holds what its latest GetResult or GetResults returned
HoldsResults(c) ==
    /\ c = Collector
    /\ pc[c] = "idle"
    /\ got # <<>> \/ count # 0 \/ last.op \in {"GetResult", "GetResults"}

\* the caller is done with the slice and the error GetResults returned to it
DropResults(c) ==
    /\ HoldsResults(c)
    /\ got' = <<>>
    /\ count' = 0
    /\ last' = IF last.op \in {"GetResult", "GetResults"} THEN NoCall ELSE last
    /\ UNCHANGED <<poolVars, workerVars, pc, nextId, histVars, panicked>>

GetResults(c) ==
    \/ GetResultsRecv(c)
    \/ GetResultsRecvClosed(c)
    \/ GetResultsTimeout(c)
    \/ GetResultsReturn(c)

\* ---- Stop ----------------------------------------------------------------
StopWait(c) == WaitForMu(c, "stop")

\* wp.mu.Lock(); if !wp.started { return }
StopLock(c) ==
    /\ pc[c] \in {"idle", "stop"}
    /\ mu = NoOne
    /\ IF started
         THEN /\ mu' = c
              /\ pc' = [pc EXCEPT ![c] = "stopCancel"]
              /\ UNCHANGED last
         ELSE /\ ReturnVoid(c)
              /\ UNCHANGED mu
    /\ UNCHANGED <<workers, jobQueue, jobClosed, results, resClosed, wg, ctxDone,
                   started, workerVars, count, got, nextId, histVars, panicked>>

\* wp.cancel()
StopCancel(c) ==
    /\ pc[c] = "stopCancel"
    /\ ctxDone' = TRUE
    /\ stopCalled' = TRUE
    /\ pc' = [pc EXCEPT ![c] = "stopClose"]
    /\ UNCHANGED <<workers, jobQueue, jobClosed, results, resClosed, wg, started, mu,
                   workerVars, count, got, last, nextId, accepted, execCount,
                   sentCount, spawned, stopped, everStarted, panicked>>

\* close(wp.jobQueue); closing a closed channel panics
StopCloseJobQueue(c) ==
    /\ pc[c] = "stopClose"
    /\ IF jobClosed
         THEN /\ panicked' = TRUE
              /\ UNCHANGED <<jobClosed, pc>>
         ELSE /\ jobClosed' = TRUE
              /\ pc' = [pc EXCEPT ![c] = "stopJoin"]
              /\ UNCHANGED panicked
    /\ UNCHANGED <<workers, jobQueue, results, resClosed, wg, ctxDone, started, mu,
                   workerVars, count, got, last, nextId, histVars>>

\* wp.wg.Wait() returns once every spawned worker has called Done
StopJoin(c) ==
    /\ pc[c] = "stopJoin"
    /\ wg = 0
    /\ pc' = [pc EXCEPT ![c] = "stopCloseResults"]
    /\ UNCHANGED <<poolVars, workerVars, count, got, last, nextId, histVars,
                   panicked>>

\* close(wp.results); wp.started = false; deferred wp.mu.Unlock()
StopCloseResults(c) ==
    /\ pc[c] = "stopCloseResults"
    /\ IF resClosed
         THEN /\ panicked' = TRUE
              /\ UNCHANGED <<resClosed, started, mu, stopped, pc, last>>
         ELSE /\ resClosed' = TRUE
              /\ started' = FALSE
              /\ mu' = NoOne
              /\ stopped' = TRUE
              /\ ReturnVoid(c)
              /\ UNCHANGED panicked
    /\ UNCHANGED <<workers, jobQueue, jobClosed, results, wg, ctxDone, workerVars,
                   count, got, nextId, accepted, execCount, sentCount, spawned,
                   stopCalled, everStarted>>

Stop(c) ==
    \/ StopLock(c)
    \/ StopCancel(c)
    \/ StopCloseJobQueue(c)
    \/ StopJoin(c)
    \/ StopCloseResults(c)

\* ---- Stats ---------------------------------------------------------------
StatsWait(c) == WaitForMu(c, "stats")

\* the map Stats builds
StatsMap ==
    [workers       |-> workers,
     jobs_queued   |-> Len(jobQueue),
     results_ready |-> Len(results),
     started       |-> started]

\* Stats, run with wp.mu read-locked from entry to return; it changes nothing
\* and the caller receives StatsMap
Stats(c) ==
    /\ pc[c] \in {"idle", "stats"}
    /\ mu = NoOne
    /\ ReturnVoid(c)
    /\ UNCHANGED <<poolVars, workerVars, count, got, nextId, histVars, panicked>>

\* ---- DatabaseBenchmarkPool ------------------------------------------------
\* the clock advances
Tick ==
    /\ now < MaxClock
    /\ now' = now + 1
    /\ UNCHANGED <<mainVars, benchQueue, dwp, cb, call>>

\* SubmitBenchmarkJob on a started pool that is not cancelled: the job takes
\* int(time.Now().UnixNano()) as its ID and goes through Submit's select
SubmitBenchmarkJob ==
    /\ LET job == Job(now, "work", BenchTimeout)
       IN  IF Len(benchQueue) < JobQueueCap
              THEN benchQueue' = Append(benchQueue, job)      \* return nil
              ELSE UNCHANGED benchQueue                       \* job queue is full
    /\ UNCHANGED <<mainVars, now, dwp, cb, call>>

\* ---- DatabaseWorkerPool and ExampleConcurrentProcessing -------------------
\* the workers are alike and the payload of a job does not steer any of
\* them, so the pool is described by how many values each channel holds and
\* how many workers are at each place; Init is the state after pool.Start
ChanCap == ExampleWorkers * ChanFactor
ExampleIdle == ExampleWorkers - dwp.processing - dwp.sending

\* first loop: pool.jobs <- job, a send that blocks while the channel is full
ExampleSend ==
    /\ dwp.sent < ExampleJobs
    /\ dwp.jobs < ChanCap
    /\ dwp' = [dwp EXCEPT !.jobs = @ + 1, !.sent = @ + 1]

\* second loop: result := <-pool.results, a receive that blocks while the
\* channel is empty
ExampleRecv ==
    /\ dwp.sent = ExampleJobs
    /\ dwp.received < ExampleJobs
    /\ dwp.results > 0
    /\ dwp' = [dwp EXCEPT !.results = @ - 1, !.received = @ + 1]

\* worker, case job := <-p.jobs: the worker enters processJob
ExampleWorkerRecv ==
    /\ ExampleIdle > 0
    /\ dwp.jobs > 0
    /\ dwp' = [dwp EXCEPT !.jobs = @ - 1, !.processing = @ + 1]

\* processJob returns its DatabaseResult
processJob ==
    /\ dwp.processing > 0
    /\ dwp' = [dwp EXCEPT !.processing = @ - 1, !.sending = @ + 1]

\* worker, p.results <- result: a plain send that blocks while the channel
\* is full
ExampleWorkerSend ==
    /\ dwp.sending > 0
    /\ dwp.results < ChanCap
    /\ dwp' = [dwp EXCEPT !.sending = @ - 1, !.results = @ + 1]

ExampleConcurrentProcessing ==
    /\ ExampleSend \/ ExampleRecv
    /\ UNCHANGED <<mainVars, now, benchQueue, cb, call>>

ExampleWorker ==
    /\ ExampleWorkerRecv \/ processJob \/ ExampleWorkerSend
    /\ UNCHANGED <<mainVars, now, benchQueue, cb, call>>

\* ---- DatabaseCircuitBreaker.Execute ---------------------------------------
\* RLock; failures := cb.failures; lastFailure := cb.lastFailure; RUnlock
ExecuteRead(c) ==
    /\ call[c].pc = "idle"
    /\ call' = [call EXCEPT ![c] =
                  [pc |-> "check", failures |-> cb.failures,
                   lastFailure |-> cb.lastFailure, ret |-> ErrNil]]
    /\ UNCHANGED cb

\* failures >= cb.threshold and time.Since(lastFailure) < cb.timeout
SeesOpen(c) ==
    /\ call[c].failures >= cb.threshold
    /\ now - call[c].lastFailure < cb.timeout

\* return fmt.Errorf("circuit breaker is open")
ExecuteOpen(c) ==
    /\ call[c].pc = "check"
    /\ SeesOpen(c)
    /\ call' = [call EXCEPT ![c] = [NoExecute EXCEPT !.ret = ErrOpen]]
    /\ UNCHANGED cb

\* mutant of ExecuteAdmit: the operation is invoked whatever the check says
ExecuteAdmitAlways(c) ==
    /\ call[c].pc = "check"
    /\ call' = [call EXCEPT ![c].pc = "op"]
    /\ UNCHANGED cb

\* the check lets the call through: operation() is invoked
ExecuteAdmit(c) ==
    /\ call[c].pc = "check"
    /\ ~SeesOpen(c)
    /\ call' = [call EXCEPT ![c].pc = "op"]
    /\ UNCHANGED cb

\* operation() returns err; Lock; the failure is counted and dated with
\* time.Now(), or the count is reset; Unlock; return err
ExecuteRecord(c) ==
    /\ call[c].pc = "op"
    /\ \E err \in {ErrNil, ErrTask} :
          /\ cb' = IF err # ErrNil
                      THEN [cb EXCEPT !.failures = @ + 1, !.lastFailure = now]
                      ELSE [cb EXCEPT !.failures = 0]
          /\ call' = [call EXCEPT ![c] = [NoExecute EXCEPT !.ret = err]]

Execute(c) ==
    /\ ExecuteRead(c) \/ ExecuteOpen(c) \/ ExecuteAdmit(c) \/ ExecuteRecord(c)
    /\ UNCHANGED <<mainVars, now, benchQueue, dwp>>

\* ---- the callers ---------------------------------------------------------
\* Three kinds of run.  In a lifecycle run the callers start, submit, collect
\* and stop in any order and the owner of the parent context may cancel it.
\* In a burst run the callers start the pool and submit all their jobs before
\* collecting any, as benchmarkCreate does, and nobody stops or cancels.
\* In a timed run the callers start, submit, ask for statistics and stop;
\* the jobs have any task function, with or without a timeout.
Lifecycle == workload = "lifecycle"
Bench == workload = "bench"
\* the runs of a plain WorkerPool
PoolRun == workload \in {"lifecycle", "burst", "timed"}
Timed     == workload = "timed"

\* in a timed run one goroutine starts the pool, submits and asks for
\* statistics, and the other one stops the pool
Stopper  == "c2"
MayUse(c) == ~Timed \/ c # Stopper
MayStop(c) == Lifecycle \/ (Timed /\ c = Stopper)

\* the collector makes its next call once it is done with the results of
\* its latest GetResults
MayCall(c) == ~HoldsResults(c)

\* Submit calls waiting for wp.mu
nWaiting == Cardinality({d \in Callers : pc[d] = "submit"})

\* a caller stops submitting at the first error, as benchmarkCreate does
MaxRejected == Cardinality(Callers)

MayCreateJob(c) ==
    /\ pc[c] = "idle"
    /\ MayUse(c)
    /\ MayCall(c)
    /\ nextId + nWaiting <= JobBudget
    /\ Cardinality(Rejected) + nWaiting < MaxRejected

\* a step of the environment or of the pool's goroutines while the process
\* is alive
Alive == ~panicked /\ PoolRun /\ UNCHANGED <<workload, sideVars>>

CallStart      == \E c \in Callers : MayUse(c) /\ MayCall(c) /\ Start(c) /\ Alive
CallStartWait  == \E c \in Callers : MayUse(c) /\ MayCall(c) /\ StartWait(c) /\ Alive
CallSubmit     == \E c \in Callers : (pc[c] = "submit" \/ MayCreateJob(c)) /\ Submit(c) /\ Alive
CallSubmitWait == \E c \in Callers : MayCreateJob(c) /\ SubmitWait(c) /\ Alive
CallStop       == \E c \in Callers : MayStop(c) /\ MayCall(c) /\ Stop(c) /\ Alive
CallStopWait   == \E c \in Callers : MayStop(c) /\ MayCall(c) /\ StopWait(c) /\ Alive
CallGetResults == \E c \in Callers : Lifecycle /\ MayCall(c) /\ GetResultsCall(c) /\ Alive
CallGetResult  == \E c \in Callers : Lifecycle /\ MayCall(c) /\ GetResult(c) /\ Alive
RunGetResults  == \E c \in Callers : GetResults(c) /\ Alive
UseResults     == \E c \in Callers : DropResults(c) /\ Alive
RunWorker      == \E w \in WorkerIds : worker(w) /\ Alive
RunTask        == \E w \in WorkerIds : TaskReturn(w) /\ Alive
FireTimer      == \E w \in WorkerIds : JobTimeout(w) /\ Alive
CancelParent   == Lifecycle /\ ParentCancel /\ Alive
CallStats      == \E c \in Callers : Timed /\ c # Stopper /\ Stats(c) /\ Alive
CallStatsWait  == \E c \in Callers : Timed /\ c # Stopper /\ StatsWait(c) /\ Alive
\* testConcurrentOperations submits in a loop; the clock runs meanwhile
CallSubmitBenchmarkJob ==
    Bench /\ Len(benchQueue) < MaxJobs /\ SubmitBenchmarkJob /\ UNCHANGED workload
Breaker == workload = "breaker"
ClockTick == (Bench \/ Breaker) /\ Tick /\ UNCHANGED workload
CallExecute == \E c \in Callers : Breaker /\ Execute(c) /\ UNCHANGED workload
RunExample == workload = "example" /\ ExampleConcurrentProcessing /\ UNCHANGED workload
RunExampleWorker == workload = "example" /\ ExampleWorker /\ UNCHANGED workload

\* ---- the system ----------------------------------------------------------
Next ==
    \/ CallStart
    \/ CallStartWait
    \/ CallSubmit
    \/ CallSubmitWait
    \/ CallStop
    \/ CallStopWait
    \/ CallGetResults
    \/ CallGetResult
    \/ RunGetResults
    \/ UseResults
    \/ RunWorker
    \/ RunTask
    \/ FireTimer
    \/ CancelParent
    \/ CallStats
    \/ CallStatsWait
    \/ CallSubmitBenchmarkJob
    \/ ClockTick
    \/ RunExample
    \/ RunExampleWorker
    \/ CallExecute

Spec == Init /\ [][Next]_vars

\* ---- fairness ------------------------------------------------------------
\* The Go scheduler runs every runnable goroutine: a worker or the collector
\* that can take a step takes one.  A task function that terminates returns.
\* Timers, the callers' decisions to call and the cancellation of the parent
\* context are under no obligation.
Fairness ==
    /\ \A w \in Slots : WF_vars(worker(w) /\ Alive)
    /\ \A w \in Slots : WF_vars(TaskReturn(w) /\ Alive)
    /\ WF_vars(GetResultsRecv(Collector) /\ Alive)
    /\ WF_vars(GetResultsReturn(Collector) /\ Alive)

LiveSpec == Spec /\ Fairness

\* A call in progress goes on as well: a Stop takes its next statement when
\* it can, and a call waiting for wp.mu gets it once it is free (in the model
\* only a Stop holds wp.mu over several steps, and a pool is shut down once).
InProgress(c) ==
    \/ pc[c] = "start"  /\ Start(c)
    \/ pc[c] = "submit" /\ Submit(c)
    \/ pc[c] = "stats"  /\ Stats(c)
    \/ pc[c] # "idle"   /\ Stop(c)

CallFairness == \A c \in Callers : WF_vars(InProgress(c) /\ Alive)

FairCallSpec == LiveSpec /\ CallFairness

\* ---- observations --------------------------------------------------------
JobIdsOf(q)    == {q[i].ID : i \in 1..Len(q)}
ResultIdsOf(r) == {r[i].JobID : i \in 1..Len(r)}
Busy(w)        == wstate[w] \in {"exec", "deliver"}
Live           == {w \in WorkerIds : wstate[w] \in {"idle", "exec", "deliver"}}
Holders(j)     == {w \in WorkerIds : Busy(w) /\ wjob[w].ID = j}
QueuedAt(j)    == {i \in 1..Len(jobQueue) : jobQueue[i].ID = j}
\* accepted jobs whose Result can still reach the collector
InFlight       == JobIdsOf(jobQueue) \cup {j \in accepted : Holders(j) # {}}
                     \cup ResultIdsOf(results)
\* a step in which a Submit call returns
SubmitReturns  == nextId' = nextId + 1
Distinct(r)    == Cardinality(ResultIdsOf(r)) = Len(r)

\* ---- C1 ------------------------------------------------------------------
C1_Returned == pc[Collector] = "idle" /\ last.op = "GetResults" /\ last.err = ErrNil
C1_TimedOut == pc[Collector] = "idle" /\ last.op = "GetResults" /\ last.err \in TimeoutErrors
C1_Pending  == /\ pc[Collector] = "getResults"
               /\ ~ctxDone
               /\ count - Len(got) <= Cardinality(InFlight)

C2_Original ==
    (started /\ ~stopCalled) =>
        \A j \in accepted :
            /\ execCount[j] <= 1
            /\ Cardinality(Holders(j)) <= 1
            /\ (execCount[j] = 0 => QueuedAt(j) # {} /\ Live # {})

\* C2 amended: no job is ever executed twice or by two workers; while the
\* pool is running and its context is not cancelled, an accepted job not yet
\* executed sits exactly once in the job queue and all the workers are alive.
C2_ExactlyOnce ==
    /\ \A j \in JobIds : execCount[j] <= 1 /\ Cardinality(Holders(j)) <= 1
    /\ \A j \in JobIds : execCount[j] = 1 => j \in accepted /\ QueuedAt(j) = {}
    /\ (started /\ ~ctxDone) =>
          /\ Live = WorkerIds
          /\ \A j \in accepted : execCount[j] = 0 => Cardinality(QueuedAt(j)) = 1

C2_Witness ==
    /\ started /\ ~ctxDone
    /\ Cardinality(accepted) >= 3
    /\ \E j \in accepted : execCount[j] = 1 /\ Holders(j) = {}
    /\ \E j \in accepted : execCount[j] = 1 /\ Holders(j) # {}
    /\ \E j \in accepted : execCount[j] = 0

\* ---- C3 ------------------------------------------------------------------
\* a job that a worker dequeued and is done with
Finished(j) == execCount[j] >= 1 /\ Holders(j) = {}

\* C3 as claimed: every dequeued job gets exactly one Result on the result
\* channel, also when Stop or cancellation happens meanwhile.
C3_Original == \A j \in JobIds : Finished(j) => sentCount[j] = 1

\* C3 amended: a dequeued job never gets two Results; it gets exactly one
\* unless the pool's context is cancelled before the Result is delivered, in
\* which case the worker may drop the Result and exit.
C3_AtMostOneResult ==
    \A j \in JobIds :
        /\ sentCount[j] <= execCount[j]
        /\ sentCount[j] <= 1
        /\ (Finished(j) /\ ~ctxDone => sentCount[j] = 1)

C3_Witness ==
    /\ ~ctxDone
    /\ \E j \in JobIds : Finished(j) /\ sentCount[j] = 1 /\ j \in ResultIdsOf(results)
    /\ \E j \in JobIds : Finished(j) /\ sentCount[j] = 1 /\ j \in ResultIdsOf(got)

\* ---- C4 ------------------------------------------------------------------
\* C4: a job for which Submit returned an error is nowhere in the pool, is
\* never executed and never has a Result, and the Submit that returned the
\* error left the job queue and the result channel as they were.
C4_RejectedLeavesNoTrace ==
    /\ [](\A j \in Rejected :
            /\ QueuedAt(j) = {}
            /\ Holders(j) = {}
            /\ execCount[j] = 0
            /\ sentCount[j] = 0
            /\ j \notin ResultIdsOf(results) \cup ResultIdsOf(got))
    /\ [][(SubmitReturns /\ last'.err # ErrNil) =>
            (jobQueue' = jobQueue /\ results' = results /\ accepted' = accepted)]_vars

C4_Witness ==
    /\ last.op = "Submit" /\ last.err # ErrNil
    /\ nextId - 1 \in Rejected
    /\ jobQueue # <<>> /\ results # <<>>

\* ---- C5 ------------------------------------------------------------------
\* a started pool, not cancelled and not being stopped, with a full job queue
C5_FullPool == started /\ ~ctxDone /\ mu = NoOne /\ Len(jobQueue) = JobQueueCap

C6_NotStarted ==
    ~everStarted =>
        /\ jobQueue = <<>>
        /\ accepted = {}
        /\ (last.op = "Submit" => last.err = ErrNotStarted)

C6_Witness ==
    ~everStarted /\ last.op = "Submit" /\ last.err = ErrNotStarted /\ nextId = 3

\* ---- C7 ------------------------------------------------------------------
\* a Submit called after a Stop that shut the pool down has returned
\* returns: the caller was not waiting for wp.mu
SubmitAfterStop == stopped /\ SubmitReturns /\ pc' = pc

\* C7 as claimed: a Submit called after Stop has returned fails with the
\* pool-cancelled error, which is not the not-started error.
C7_Original ==
    [][SubmitAfterStop => (last'.err = ErrCanceled /\ last'.err # ErrNotStarted)]_vars

\* ---- C8 ------------------------------------------------------------------
\* C8 as claimed: a Submit on a started pool whose context is already
\* cancelled returns the pool-cancelled error and enqueues nothing.
C8_Original ==
    [][(started /\ ctxDone /\ SubmitReturns) =>
         (last'.err = ErrCanceled /\ jobQueue' = jobQueue)]_vars

\* ---- C9 ------------------------------------------------------------------
\* C9 as claimed: a Submit call in progress never depends on a task function
\* making progress: none waits for wp.mu while the Stop holding it waits for
\* a worker that is inside a task function.
C9_Original ==
    \A c \in Callers :
        pc[c] = "submit" => ~(\E w \in WorkerIds : wstate[w] = "exec")

\* ---- C10 -----------------------------------------------------------------
\* C10 as claimed: whatever Start calls were made, exactly workers workers
\* have been spawned once the pool is started, never more, and at most
\* workers workers are alive.
C10_Original ==
    /\ spawned <= workers
    /\ (started => spawned = workers)
    /\ Cardinality(Live) <= workers

\* ---- C11 -----------------------------------------------------------------
\* C11 as claimed: in every state after a Stop call on a started pool has
\* returned, no worker of the pool is alive (idle, executing or delivering)
\* and the job queue is closed.
C11_Original == stopped => (Live = {} /\ jobClosed)

\* ---- C12 -----------------------------------------------------------------
\* C12 as claimed: Stop cancels, then closes the job queue, then waits for
\* the workers, then closes the result channel, so that the job queue is
\* closed only on a cancelled pool, the result channel only after the job
\* queue, and no worker is ever about to send a Result on the closed result
\* channel.
C12_Original ==
    /\ jobClosed => ctxDone
    /\ resClosed => jobClosed
    /\ \A w \in WorkerIds : wstate[w] = "deliver" => ~resClosed

\* ---- C13 -----------------------------------------------------------------
\* C13 as claimed: once Stop has triggered the cancellation, no job that is
\* still in the job queue is dequeued and executed, and none gets a Result.
C13_Original ==
    [][stopCalled => (execCount' = execCount /\ jobQueue' = jobQueue)]_vars

\* ---- C14 -----------------------------------------------------------------
\* C14 as claimed: after a Stop that shut the pool down has returned, no
\* sequence of Start and Submit calls gets a job accepted or executed.
C14_Original ==
    [][stopped => (accepted' = accepted /\ execCount' = execCount)]_vars

\* ---- C15 -----------------------------------------------------------------
\* the pool's cancellation has been observed: a worker has returned, or a
\* Submit has returned the context's error
C15_Observed ==
    \/ \E w \in WorkerIds : wstate[w] = "exited"
    \/ last.op = "Submit" /\ last.err = ErrCanceled

\* C15 as claimed: whenever the pool's cancellation has been observed, Stop
\* has been called on the pool.
C15_Original == C15_Observed => stopCalled

\* C15 amended: the pool's cancellation is observed only once it has been
\* triggered, and it is triggered only by wp.cancel() in Stop or by the
\* cancellation of the context that was passed to NewWorkerPool; once
\* triggered it stays.
C15_StopOrParent ==
    /\ [](C15_Observed => ctxDone)
    /\ [][(~ctxDone /\ ctxDone') =>
            (ParentCancel \/ \E c \in Callers : StopCancel(c))]_vars
    /\ [][ctxDone => ctxDone']_vars

C15_Witness ==
    /\ ~stopCalled
    /\ \E w \in WorkerIds : wstate[w] = "exited"
    /\ last.op = "Submit" /\ last.err = ErrCanceled

\* ---- C16 -----------------------------------------------------------------
\* a step in which GetResults returns an error
C16_ErrorReturn ==
    pc[Collector] = "getResults" /\ pc'[Collector] = "idle" /\ last'.err # ErrNil

\* a Result as a worker built it for a job that was executed once
C16_Unaltered(r) ==
    /\ r.JobID \in accepted
    /\ sentCount[r.JobID] = 1
    /\ r = Result(r.JobID, TaskErr(r.JobID))

\* C16: GetResults appends what it receives and never drops or changes what
\* it has; when it times out with k < count results received it returns
\* those k results as received, with the error that reports k and count,
\* and takes nothing more from the result channel.
C16_PartialOnTimeout ==
    /\ [][pc[Collector] = "getResults" =>
            \/ got' = got
            \/ /\ Len(results) > 0 \/ resClosed
               /\ got' = Append(got, IF Len(results) > 0 THEN Head(results)
                                                         ELSE ZeroResult)]_vars
    /\ [][C16_ErrorReturn =>
            /\ Len(got) < count
            /\ got' = got /\ count' = count /\ results' = results
            /\ last'.op = "GetResults"
            /\ last'.err = TimeoutError(Len(got), count)]_vars
    /\ [](C1_TimedOut =>
            /\ last.err = TimeoutError(Len(got), count)
            /\ \A i \in 1..Len(got) : got[i] = ZeroResult \/ C16_Unaltered(got[i])
            /\ \A i, k \in 1..Len(got) :
                  (i # k /\ got[i] # ZeroResult) => got[i] # got[k])

C16_Witness ==
    /\ C1_TimedOut
    /\ last.err = TimeoutError(1, 2)
    /\ Len(got) = 1 /\ C16_Unaltered(got[1])
    /\ results = <<>> /\ ~resClosed

\* ---- C17 -----------------------------------------------------------------
\* worker w is inside the task function of job j, which has a timeout and
\* ignores its context, and the timeout has elapsed
C17_Overdue(w, j) ==
    /\ wstate[w] = "exec"
    /\ wjob[w] = Job(j, "hang", 1)
    /\ deadline[w]

\* the Result of job j with the deadline-exceeded error is on the result
\* channel and worker w has gone on
C17_Reported(w, j) ==
    /\ \E i \in 1..Len(results) : results[i] = Result(j, ErrDeadline)
    /\ wstate[w] # "exec"

\* C17 as claimed: a job with a timeout whose task function ignores its
\* context and never returns gets a Result with the deadline-exceeded error
\* once its timeout has elapsed, and its worker goes on to further jobs.
C17_Original ==
    \A w \in Slots, j \in 1..TimedJobs : C17_Overdue(w, j) ~> C17_Reported(w, j)

\* ---- C18 -----------------------------------------------------------------
\* a step in which the timeout of the job on worker w fires
C18_TimerFires(w) == ~deadline[w] /\ deadline'[w]

\* C18: the timeout of a job fires only while the job executes, and the step
\* in which it fires leaves the pool's context uncancelled and the started
\* flag, the job queue, the result channel and the other workers, with the
\* contexts of their jobs, as they were.
C18_TimeoutFrame ==
    /\ [](\A w \in Slots :
            deadline[w] => (wstate[w] = "exec" /\ wjob[w].Timeout > 0))
    /\ [][\A w \in Slots : C18_TimerFires(w) =>
            /\ ~ctxDone /\ ~ctxDone'
            /\ UNCHANGED <<started, jobQueue, jobClosed, results, resClosed, wg, mu>>
            /\ UNCHANGED <<wstate, wjob, wresult>>
            /\ \A v \in Slots \ {w} : deadline'[v] = deadline[v]]_vars

C18_Witness ==
    /\ started /\ ~ctxDone
    /\ \E w, v \in WorkerIds :
          /\ wstate[w] = "exec" /\ deadline[w]
          /\ wstate[v] = "exec" /\ ~deadline[v] /\ wjob[v].Timeout > 0
          /\ wjob[v].TaskFunc = "waitCtx"

\* ---- C19 -----------------------------------------------------------------
\* the errors returned across the API by Submit and GetResults
C19_ApiErrors == {ErrNil, ErrNotStarted, ErrQueueFull, ErrCanceled} \cup TimeoutErrors

\* the Results that exist: on the result channel, collected, held by a worker
C19_Results ==
    {results[i] : i \in 1..Len(results)} \cup {got[i] : i \in 1..Len(got)}
        \cup {wresult[w] : w \in {v \in WorkerIds : wstate[v] = "deliver"}}

\* C19: the Result a worker builds carries the ID of its job and the error
\* its task function returned, and so does every Result on the way to the
\* collector; the error of a task function is never what Submit or
\* GetResults returns; a worker that has sent the Result of a failed job goes
\* on to the next job.
C19_ErrorInResult ==
    /\ [][\A w \in Slots : (wstate[w] = "exec" /\ wstate'[w] = "deliver") =>
            /\ wresult'[w].JobID = wjob[w].ID
            /\ wresult'[w].Error \in TaskOutcomes(w)]_vars
    /\ [](\A r \in C19_Results \ {ZeroResult} :
            IF Timed THEN r.Error \in {ErrDeadline, ErrCanceled}
                     ELSE r.Error = TaskErr(r.JobID))
    /\ [](last.err \in C19_ApiErrors)
    /\ [][\A w \in Slots :
            (wstate[w] = "deliver" /\ wresult[w].Error # ErrNil
                /\ results' = Append(results, wresult[w])) =>
            wstate'[w] = "idle"]_vars

C19_Witness ==
    /\ C1_Returned
    /\ got = <<Result(2, ErrTask), Result(3, ErrNil)>>

\* ---- C20 -----------------------------------------------------------------
\* caller c is inside Start, Submit, Stats or Stop
C20_InCall(c) ==
    pc[c] \in {"start", "submit", "stats", "stop", "stopCancel", "stopClose",
               "stopJoin", "stopCloseResults"}

\* C20 as claimed: every call of Start, Submit, Stats and Stop returns, also
\* when a task function never returns (a call is not held against the pool
\* once the process has died of a panic).
C20_Original ==
    \A c \in Callers : C20_InCall(c) ~> (pc[c] = "idle" \/ panicked)

\* ---- C21 -----------------------------------------------------------------
\* the jobs that are inside their task function
Executing == {j \in JobIds : \E w \in WorkerIds : wstate[w] = "exec" /\ wjob[w].ID = j}

\* C21: never more jobs execute at the same time than the pool has workers,
\* and never more workers are alive; with one worker at most one job executes
\* at a time, and a job has started only if every job accepted before it has
\* started.
C21_BoundedSerial ==
    /\ Cardinality(Executing) <= workers
    /\ Cardinality(Live) <= workers
    /\ wg <= workers
    /\ workers = 1 =>
          /\ Cardinality(Executing) <= 1
          /\ \A i, j \in accepted : (i < j /\ execCount[j] >= 1) => execCount[i] >= 1

C21_Witness ==
    /\ workers = 1
    /\ accepted = {1, 2, 3}
    /\ Executing = {2}
    /\ execCount[1] = 1 /\ execCount[3] = 0

\* ---- C22 -----------------------------------------------------------------
\* the jobs in the queue or inside their task whose task never returns
Unreturning ==
    Cardinality({i \in 1..Len(jobQueue) : jobQueue[i].TaskFunc = "hang"})
      + Cardinality({w \in WorkerIds : wstate[w] = "exec" /\ wjob[w].TaskFunc = "hang"})

AllExecuting == \A w \in WorkerIds : wstate[w] = "exec"

\* C22: on a running pool that holds at least as many accepted jobs whose
\* task never returns as it has workers, a state in which every worker is
\* inside a task at the same time is reached, unless the pool is cancelled
\* first.
C22_Parallel ==
    (started /\ ~ctxDone /\ workers >= 1 /\ Unreturning >= workers)
        ~> (AllExecuting \/ ctxDone)

C22_Witness ==
    /\ workers = 2
    /\ started /\ ~ctxDone
    /\ Cardinality(Executing) = 2
    /\ \A w \in WorkerIds : wstate[w] = "exec" /\ wjob[w].TaskFunc = "hang"

\* ---- C23 -----------------------------------------------------------------
\* C23: no worker stays for ever in the delivery of a finished Result once the
\* pool's context is cancelled (it sends the Result or drops it), and
\* while Stop waits for the workers every worker that is not inside a task
\* has a step it can take.
C23_NoBlockedDelivery ==
    /\ []<>(panicked \/ ~ctxDone \/ \A w \in Slots : wstate[w] # "deliver")
    /\ [](\A c \in Callers : (pc[c] = "stopJoin" /\ ~panicked) =>
            \A w \in WorkerIds :
                wstate[w] \in {"idle", "deliver"} => ENABLED worker(w))

\* a worker has dropped a Result in front of a full result channel
C23_Witness ==
    /\ ctxDone
    /\ Len(results) = ResultsCap
    /\ \E j \in accepted :
          /\ execCount[j] = 1 /\ sentCount[j] = 0
          /\ Holders(j) = {}
    /\ \A w \in WorkerIds : wstate[w] = "exited"

\* ---- C24 -----------------------------------------------------------------
\* C24: a job taken from the queue is handed to its task function in the same
\* step; a worker inside a task function stays there until the function
\* returns, cancelled or not, and then holds the Result of that job; a worker
\* exits only from the receive or from the delivery, never from inside a task.
C24_RunsToReturn ==
    [][/\ Len(jobQueue') < Len(jobQueue) =>
             \E w \in WorkerIds :
                 /\ wstate[w] = "idle" /\ wstate'[w] = "exec"
                 /\ wjob'[w] = Head(jobQueue)
                 /\ execCount'[Head(jobQueue).ID] = execCount[Head(jobQueue).ID] + 1
       /\ \A w \in Slots :
             /\ wstate[w] = "exec" => wstate'[w] \in {"exec", "deliver"}
             /\ (wstate[w] = "exec" /\ wstate'[w] = "deliver") =>
                   (wjob'[w] = wjob[w] /\ wresult'[w].JobID = wjob[w].ID)
             /\ (wstate[w] # "exited" /\ wstate'[w] = "exited") =>
                   wstate[w] \in {"idle", "deliver"}]_vars

\* a task that was inside its function when the pool was cancelled has
\* returned the cancellation and the worker holds its Result
C24_Witness ==
    \E w \in WorkerIds :
        /\ ctxDone /\ stopCalled
        /\ wstate[w] = "deliver"
        /\ wjob[w].TaskFunc = "waitCtx"
        /\ wresult[w] = Result(wjob[w].ID, ErrCanceled)

\* ---- C25 -----------------------------------------------------------------
\* C25: once a Stop has returned, a further Stop changes nothing of the pool;
\* no step closes the job queue or the result channel a second time; no
\* Submit sends on the closed job queue.
C25_Original ==
    [][/\ (stopped /\ \E c \in Callers : Stop(c)) => UNCHANGED <<poolVars, workerVars>>
       /\ jobClosed => ~(\E c \in Callers : StopCloseJobQueue(c))
       /\ resClosed => ~(\E c \in Callers : StopCloseResults(c))
       /\ ~(\E c \in Callers : SubmitSendClosed(c))]_vars

\* ---- C26 -----------------------------------------------------------------
\* what GetResult or GetResults has handed to its caller
C26_Returned ==
    IF pc[Collector] = "idle" /\ last.op = "GetResult" /\ last.err = ErrNil
       THEN {got[1]}
       ELSE IF pc[Collector] = "getResults" \/ last.op = "GetResults"
               THEN {got[i] : i \in 1..Len(got)}
               ELSE {}

\* C26: every Result that GetResult returns without error and every Result
\* in the slice of GetResults is the Result a worker sent for an accepted job
\* it executed, never the zero value.
C26_Original ==
    \A r \in C26_Returned :
        /\ r # ZeroResult
        /\ r.JobID \in accepted
        /\ execCount[r.JobID] >= 1 /\ sentCount[r.JobID] >= 1

\* ---- C27 -----------------------------------------------------------------
\* the places an accepted job can be in before its Result is collected: a slot
\* of the job queue, a slot of the result channel, or the hand of a worker
MaxInFlight == (JobQueueFactor + ResultsFactor + 1) * workers

\* accepted jobs whose Result no GetResult or GetResults has received
Uncollected ==
    {j \in accepted : sentCount[j] = 0 \/ j \in ResultIdsOf(results)}

\* C27: the accepted jobs not yet collected never exceed 13 times the worker
\* count; a caller that has collected nothing and submits to a running pool
\* that already holds that many gets the queue-full error and the job is not
\* accepted.
C27_Bound ==
    /\ [](Cardinality(Uncollected) <= MaxInFlight)
    /\ [][(workload = "burst" /\ started /\ Cardinality(accepted) = MaxInFlight
             /\ SubmitReturns) =>
            (last'.op = "Submit" /\ last'.err = ErrQueueFull /\ accepted' = accepted)]_vars

\* thirteen jobs are held by a pool of one worker and the fourteenth was
\* refused
C27_Witness ==
    /\ workload = "burst"
    /\ workers = 1
    /\ Cardinality(Uncollected) = 13
    /\ nextId = 15
    /\ Rejected = {14}
    /\ last.op = "Submit" /\ last.err = ErrQueueFull

\* ---- C28 -----------------------------------------------------------------
\* C28: any two jobs submitted through SubmitBenchmarkJob on the same pool
\* carry different IDs.
C28_Original ==
    \A i, j \in 1..Len(benchQueue) : i # j => benchQueue[i].ID # benchQueue[j].ID

\* ---- C29 -----------------------------------------------------------------
\* both loops of the example are over
ExampleDone == dwp.sent = ExampleJobs /\ dwp.received = ExampleJobs

\* C29: the example never comes to a halt before both of its loops are over:
\* until then the caller or a worker has a step to take.
C29_Original ==
    workload = "example" => (ExampleDone \/ ENABLED (RunExample \/ RunExampleWorker))

\* ---- C30 -----------------------------------------------------------------
\* the call of c has read a failure count at the threshold, and the timeout
\* has not elapsed since the failure it read
C30_StartsOpen(c) ==
    /\ call[c].pc = "check"
    /\ call[c].failures >= cb.threshold
    /\ now - call[c].lastFailure < cb.timeout

====
